---- MODULE Spec2Model ----
(***************************************************************************)
(* SALib.sample.fast_sampler.sample(problem, N, M): the sample matrix of   *)
(* the Fourier Amplitude Sensitivity Test.  The function is modelled       *)
(* statement by statement; pc is the position inside sample.               *)
(*                                                                         *)
(* Arrays keep the source's 0-based indices: omega, omega2 are functions   *)
(* on 0..D-1 and X is a function on 0..N*D-1 whose values are rows on      *)
(* 0..D-1.  An array that is not allocated yet is the empty tuple.         *)
(***************************************************************************)
EXTENDS Integers, Sequences, FiniteSets, TLC

(***************************************************************************)
(* Bounds of the model.                                                    *)
(***************************************************************************)
\* Spec: sample counts 1..MaxN, interference orders 1..MaxM, 1..MaxD parameters.
MaxN == 9
MaxM == 2
MaxD == 3
\* The random source returns rand() = p / PhaseRes for p in 0..PhaseRes-1.
PhaseRes == 3
\* SpecFreq: the frequency assigner alone, on a wider range of inputs.
MaxFreqN == 128
MaxFreqM == 2
MaxFreqD == 24

(***************************************************************************)
(* IEEE-754 binary64 arithmetic, as far as np.linspace needs it.           *)
(* A natural number is a tuple of limbs in base 2^LimbBits, least          *)
(* significant first, without leading zero limbs.  A positive double is    *)
(* [m |-> limbs, x |-> e]: the value m * 2^e with m of exactly MantBits    *)
(* bits; zero is [m |-> <<>>, x |-> 0].                                    *)
(***************************************************************************)
MantBits == 53
LimbBits == 15
\* Fraction bits a quotient is computed to before it is rounded.
DivBits == 75

Pow2(e) == 2 ^ e

Base == Pow2(LimbBits)

\* Number of bits of a machine integer 0 <= n < 2^(2*LimbBits).
BitLen(n) == CHOOSE q \in 0..(2 * LimbBits) : n < Pow2(q) /\ (q = 0 \/ Pow2(q - 1) <= n)

Limb(b, q) == IF 1 <= q /\ q <= Len(b) THEN b[q] ELSE 0

BigTop(b) ==
  LET S == {q \in 1..Len(b) : b[q] # 0}
  IN IF S = {} THEN 0 ELSE CHOOSE q \in S : \A r \in S : r <= q

BigTrim(b) == SubSeq(b, 1, BigTop(b))

\* Number of bits of b.
BigLen(b) ==
  LET top == BigTop(b)
  IN IF top = 0 THEN 0 ELSE (top - 1) * LimbBits + BitLen(b[top])

BigFromInt(n) == BigTrim(<<n % Base, n \div Base>>)

BigToInt(b) == Limb(b, 1) + Base * Limb(b, 2)

\* Bit q (0 is the least significant) of b.
BigBit(b, q) == (Limb(b, (q \div LimbBits) + 1) \div Pow2(q % LimbBits)) % 2

\* b * 2^t.
BigShl(b, t) ==
  LET w == t \div LimbBits
      r == t % LimbBits
  IN BigTrim([q \in 1..(Len(b) + w + 1) |->
        (Limb(b, q - w) % Pow2(LimbBits - r)) * Pow2(r)
        + (Limb(b, q - w - 1) \div Pow2(LimbBits - r))])

\* floor(b / 2^t).
BigShr(b, t) ==
  LET w == t \div LimbBits
      r == t % LimbBits
  IN BigTrim([q \in 1..Len(b) |->
        (Limb(b, q + w) \div Pow2(r))
        + (Limb(b, q + w + 1) % Pow2(r)) * Pow2(LimbBits - r)])

RECURSIVE BigAddFrom(_, _, _, _, _)
BigAddFrom(a, b, q, carry, acc) ==
  IF q > Len(a) /\ q > Len(b)
  THEN IF carry = 0 THEN acc ELSE Append(acc, carry)
  ELSE LET t == Limb(a, q) + Limb(b, q) + carry
       IN BigAddFrom(a, b, q + 1, t \div Base, Append(acc, t % Base))

BigAdd(a, b) == BigAddFrom(a, b, 1, 0, <<>>)

RECURSIVE BigMulFrom(_, _, _, _, _)
BigMulFrom(a, k, q, carry, acc) ==
  IF q > Len(a)
  THEN IF carry = 0 THEN acc ELSE Append(acc, carry)
  ELSE LET t == a[q] * k + carry
       IN BigMulFrom(a, k, q + 1, t \div Base, Append(acc, t % Base))

\* a * k for a machine integer 0 <= k < Base.
BigMulInt(a, k) == BigTrim(BigMulFrom(a, k, 1, 0, <<>>))

\* Long division of a by the machine integer 0 < d < Base, from the top limb
\* down: <<quotient, remainder>>.
RECURSIVE BigDivFrom(_, _, _, _, _)
BigDivFrom(a, d, q, r, acc) ==
  IF q = 0 THEN <<BigTrim(acc), r>>
  ELSE LET t == r * Base + a[q]
       IN BigDivFrom(a, d, q - 1, t % d, <<t \div d>> \o acc)

BigDivInt(a, d) == BigDivFrom(a, d, Len(a), 0, <<>>)

FZero == [m |-> <<>>, x |-> 0]

\* Round-to-nearest, ties-to-even, of the exact value b * 2^e (plus, when
\* sticky, a nonzero fraction below the last bit of b) to MantBits bits.
RECURSIVE FRound(_, _, _)
FRound(b, e, sticky) ==
  LET len == BigLen(b)
  IN IF len = 0 THEN FZero
     ELSE IF len <= MantBits
     THEN [m |-> BigShl(b, MantBits - len), x |-> e - (MantBits - len)]
     ELSE LET t    == len - MantBits
              hi   == BigShr(b, t)
              half == BigBit(b, t - 1)
              rest == sticky \/ \E q \in 0..(t - 2) : BigBit(b, q) = 1
              up   == half = 1 /\ (rest \/ BigBit(hi, 0) = 1)
          IN IF up THEN FRound(BigAdd(hi, <<1>>), e + t, FALSE)
             ELSE [m |-> hi, x |-> e + t]

FFromInt(n) == FRound(BigFromInt(n), 0, FALSE)

\* float(a) / float(d) for machine integers a >= 0, 0 < d < Base.
FDivInt(a, d) ==
  LET qr == BigDivInt(BigShl(BigFromInt(a), DivBits), d)
  IN FRound(qr[1], 0 - DivBits, qr[2] # 0)

\* float(k) * f for a machine integer 0 <= k < Base.
FMulInt(k, f) == FRound(BigMulInt(f.m, k), f.x, FALSE)

\* f + float(n) for a machine integer n >= 0.
FAddInt(f, n) ==
  IF f.x <= 0
  THEN FRound(BigAdd(f.m, BigShl(BigFromInt(n), 0 - f.x)), f.x, FALSE)
  ELSE FRound(BigAdd(BigShl(f.m, f.x), BigFromInt(n)), 0, FALSE)

\* np.floor / math.floor of a double 0 <= f < 2^(2*LimbBits), as an integer.
FFloor(f) ==
  IF f.x >= 0 THEN BigToInt(BigShl(f.m, f.x)) ELSE BigToInt(BigShr(f.m, 0 - f.x))

(***************************************************************************)
(* The pure parts of sample.                                               *)
(***************************************************************************)
\* A strict comparison in the place of line 30's <=.
TooFewSamplesStrict(n, mm) == n < 4 * mm ^ 2

\* Line 30: N <= 4*M**2.
TooFewSamples(n, mm) == n <= 4 * mm ^ 2

\* Line 37: math.floor((N - 1) / (2 * M)), a true (floating) division.
BaseFrequency(n, mm) == FFloor(FDivInt(n - 1, 2 * mm))

\* Line 38 dividing by M, not by 2 * M.
MaxHarmonicByM(w0, mm) == FFloor(FDivInt(w0, mm))

\* Line 38: math.floor(omega[0] / (2 * M)).
MaxHarmonic(w0, mm) == FFloor(FDivInt(w0, 2 * mm))

\* np.linspace(start, stop, num) for integers start <= stop: arange(num) * step
\* + start with step = (stop - start) / (num - 1), the last point set to stop.
linspace(start, stop, num) ==
  IF num = 0 THEN <<>>
  ELSE IF num = 1 THEN <<FFromInt(start)>>
  ELSE LET step == FDivInt(stop - start, num - 1)
       IN [q \in 1..num |->
             IF q = num THEN FFromInt(stop)
             ELSE FAddInt(FMulInt(q - 1, step), start)]

\* Line 41 asking linspace for D points, not D - 1.
SpacedOnePointMore(mm, d) ==
  LET y == linspace(1, mm, d) IN [q \in 1..Len(y) |-> FFloor(y[q])]

\* Line 41: np.floor(np.linspace(1, m, D - 1)), the values of omega[1:].
Spaced(mm, d) ==
  LET y == linspace(1, mm, d - 1) IN [q \in 1..Len(y) |-> FFloor(y[q])]

\* numpy's integer remainder: 0 (and a warning) when the divisor is 0.
Rem(a, b) == IF b = 0 THEN 0 ELSE a % b

\* Line 43: np.arange(D - 1) % m + 1, the values of omega[1:].
Cyclic(mm, d) == [q \in 1..(d - 1) |-> Rem(q - 1, mm) + 1]

\* range(n + 1) in the place of range(n).
rangeOneMore(n) == 0..n

\* Lines 52 and 62: range(D).
range(n) == 0..(n - 1)

\* The docstring's row count: N.
RowsOfDocstring(n, d) == n

\* Line 49: the number of rows of X, N * D.
Rows(n, d) == n * d

\* np.zeros([n]).
zeros(n) == [q \in 0..(n - 1) |-> 0]

\* omega[1:] = vals.
SetTail(w, vals) == [q \in DOMAIN w |-> IF q >= 1 THEN vals[q] ELSE w[q]]

\* Line 54 leaving out the last position, not position i: list(range(D - 1)).
idxWithoutLast(ii, d) == [t \in 1..(d - 1) |-> t - 1]

\* Line 54: list(range(i)) + list(range(i + 1, D)); the t-th entry is idx[t].
idx(ii, d) == [t \in 1..(d - 1) |-> IF t <= ii THEN t - 1 ELSE t]

\* arr[ix] = vals, vals[t] being stored at position ix[t].
FancyAssign(arr, ix, vals) ==
  [q \in DOMAIN arr |->
     IF \E t \in DOMAIN ix : ix[t] = q
     THEN vals[CHOOSE t \in DOMAIN ix : ix[t] = q /\ \A u \in DOMAIN ix : ix[u] = q => u <= t]
     ELSE arr[q]]

\* Line 56 without the block's offset: range(N).
lFirstBlock(ii, n) == 0..(n - 1)

\* Line 56: l = range(i * N, (i + 1) * N).
l(ii, n) == (ii * n)..((ii + 1) * n - 1)

(***************************************************************************)
(* Angles are counted in units of 2*pi / (N * PhaseRes), so that both      *)
(* s[k] = (2*pi/N)*k and phi = 2*pi*rand() are whole numbers of units.     *)
(* Matrix entries are numerators over the denominator GDen(N).             *)
(***************************************************************************)
FullTurn(n) == n * PhaseRes

GDen(n) == 2 * FullTurn(n)

\* Line 46: s[k] = (2 * math.pi / N) * k.
s(k) == k * PhaseRes

\* Line 60: 2 * math.pi * np.random.rand(), rand() returning p / PhaseRes.
Phase(p, n) == p * n

\* np.arcsin(np.sin(a)): the angle in [-pi/2, pi/2] with the same sine as a,
\* in quarter units (a result r stands for r / 4 units).
arcsin_sin(a, n) ==
  LET q  == FullTurn(n)
      a4 == 4 * (a % q)
  IN IF a4 <= q THEN a4
     ELSE IF a4 <= 3 * q THEN 2 * q - a4
     ELSE a4 - 4 * q

\* Line 63 with the factor 2 / math.pi in the place of 1 / math.pi.
gTwoOverPi(w, k, ph, n) == FullTurn(n) + 2 * arcsin_sin(w * s(k) + ph, n)

\* Line 63: g = 0.5 + (1 / math.pi) * np.arcsin(np.sin(omega2[j] * s + phi)),
\* at row k of the block, as a numerator over GDen(N).
g(w, k, ph, n) == FullTurn(n) + arcsin_sin(w * s(k) + ph, n)

(***************************************************************************)
(* The problem definitions and the collaborators of SALib.util.            *)
(***************************************************************************)
UnitBounds(d) == [q \in 0..(d - 1) |-> <<0, 1>>]

WideBounds(d) == [q \in 0..(d - 1) |-> <<0 - 1, 3 + q>>]

\* 'dists' is a missing key, an empty list or a list of d distribution tags.
NoDists == [present |-> FALSE, value |-> <<>>]

EmptyDists == [present |-> TRUE, value |-> <<>>]

SomeDists(d) == [present |-> TRUE, value |-> [q \in 1..d |-> "norm"]]

Problems(d) ==
  {[num_vars |-> d, bounds |-> b, dists |-> NoDists] : b \in {UnitBounds(d), WideBounds(d)}}
  \cup {[num_vars |-> d, bounds |-> UnitBounds(d), dists |-> EmptyDists],
        [num_vars |-> d, bounds |-> UnitBounds(d), dists |-> SomeDists(d)]}

\* Line 67 testing for the key only: 'dists' in problem.
HasDistsKey(pr) == pr.dists.present

\* Line 67: the truth value of problem.get('dists').
HasDists(pr) == pr.dists.present /\ pr.dists.value # <<>>

\* scale_samples(X, bounds): column c rescaled in place from [0, 1] to
\* [bounds[c][0], bounds[c][1]].
scale_samples(x, b, n) ==
  [r \in DOMAIN x |->
     [c \in DOMAIN x[r] |-> x[r][c] * (b[c][2] - b[c][1]) + b[c][1] * GDen(n)]]

\* What a collaborator returns: a matrix of the shape of its argument.
Matrix(name, rows, cols) == [obj |-> name, rows |-> rows, cols |-> cols]

NoMatrix == Matrix("none", 0, 0)

limit_samples(x) == Matrix("limited_X", x.rows, x.cols)

nonuniform_scale_samples(x) == Matrix("scaled_X", x.rows, x.cols)

Call(fn, args, result) == [fn |-> fn, args |-> args, result |-> result]

(***************************************************************************)
(* The state of one call of sample.                                        *)
(***************************************************************************)
VARIABLES
  N, M, problem,   \* the arguments
  pc,              \* the position in sample
  D, omega, m,     \* lines 34-43
  X, omega2,       \* lines 49-50
  i, j, phi,       \* the loop variables and the phase of the block
  ret,             \* the returned matrix
  rng,             \* the number of np.random.rand() calls: the random source's state
  calls,           \* the calls of collaborators, in order
  omega2From,      \* for each omega2[q]: <<the block that assigned it, the index in omega>>
  written,         \* for each cell of X: the writes it received
  nwritten,        \* the number of cell writes so far
  draws            \* for each phase draw: the block, the cell writes before it, the phase

vars == <<N, M, problem, pc, D, omega, m, X, omega2, i, j, phi, ret, rng, calls,
          omega2From, written, nwritten, draws>>

Entry(n, mm, pr) ==
  /\ N = n /\ M = mm /\ problem = pr
  /\ pc = "check"
  /\ D = 0 /\ omega = <<>> /\ m = 0
  /\ X = <<>> /\ omega2 = <<>>
  /\ i = 0 /\ j = 0 /\ phi = 0
  /\ ret = NoMatrix
  /\ rng = 0
  /\ calls = <<>>
  /\ omega2From = <<>>
  /\ written = <<>>
  /\ nwritten = 0
  /\ draws = <<>>

Init ==
  \E n \in 1..MaxN, mm \in 1..MaxM, d \in 1..MaxD :
    \E pr \in Problems(d) : Entry(n, mm, pr)

\* Lines 30-32.
CheckN ==
  /\ pc = "check"
  /\ pc' = IF TooFewSamples(N, M) THEN "raised" ELSE "num_vars"
  /\ UNCHANGED <<N, M, problem, D, omega, m, X, omega2, i, j, phi, ret, rng, calls,
                 omega2From, written, nwritten, draws>>

\* Line 34.
ReadNumVars ==
  /\ pc = "num_vars"
  /\ D' = problem.num_vars
  /\ pc' = "base"
  /\ UNCHANGED <<N, M, problem, omega, m, X, omega2, i, j, phi, ret, rng, calls,
                 omega2From, written, nwritten, draws>>

\* Lines 36-38.
AssignBase ==
  /\ pc = "base"
  /\ omega' = [zeros(D) EXCEPT ![0] = BaseFrequency(N, M)]
  /\ m' = MaxHarmonic(omega'[0], M)
  /\ pc' = "branch"
  /\ UNCHANGED <<N, M, problem, D, X, omega2, i, j, phi, ret, rng, calls,
                 omega2From, written, nwritten, draws>>

\* Lines 40-41.
AssignSpaced ==
  /\ pc = "branch"
  /\ m >= D - 1
  /\ omega' = SetTail(omega, Spaced(m, D))
  /\ pc' = "alloc"
  /\ UNCHANGED <<N, M, problem, D, m, X, omega2, i, j, phi, ret, rng, calls,
                 omega2From, written, nwritten, draws>>

\* Lines 42-43.
AssignCyclic ==
  /\ pc = "branch"
  /\ ~(m >= D - 1)
  /\ omega' = SetTail(omega, Cyclic(m, D))
  /\ pc' = "alloc"
  /\ UNCHANGED <<N, M, problem, D, m, X, omega2, i, j, phi, ret, rng, calls,
                 omega2From, written, nwritten, draws>>

\* Lines 46-50; the loop of line 52 is entered with i = 0.
Allocate ==
  /\ pc = "alloc"
  /\ X' = [r \in 0..(Rows(N, D) - 1) |-> zeros(D)]
  /\ omega2' = zeros(D)
  /\ omega2From' = [q \in 0..(D - 1) |-> <<0 - 1, 0 - 1>>]
  /\ written' = [r \in 0..(Rows(N, D) - 1) |-> [c \in 0..(D - 1) |-> <<>>]]
  /\ i' = 0
  /\ pc' = IF 0 \in range(D) THEN "rotate" ELSE "scale"
  /\ UNCHANGED <<N, M, problem, D, omega, m, j, phi, ret, rng, calls, nwritten, draws>>

\* Lines 53-56.
Rotate ==
  /\ pc = "rotate"
  /\ omega2' = FancyAssign([omega2 EXCEPT ![i] = omega[0]], idx(i, D),
                           [t \in 1..(D - 1) |-> omega[t]])
  /\ omega2From' = FancyAssign([omega2From EXCEPT ![i] = <<i, 0>>], idx(i, D),
                               [t \in 1..(D - 1) |-> <<i, t>>])
  /\ pc' = "phase"
  /\ UNCHANGED <<N, M, problem, D, omega, m, X, i, j, phi, ret, rng, calls,
                 written, nwritten, draws>>

\* Line 60; the loop of line 62 is entered with j = 0.
DrawPhase ==
  /\ pc = "phase"
  /\ \E p \in 0..(PhaseRes - 1) : phi' = Phase(p, N)
  /\ rng' = rng + 1
  /\ draws' = Append(draws, [block |-> i, before |-> nwritten, phi |-> phi'])
  /\ j' = 0
  /\ pc' = "column"
  /\ UNCHANGED <<N, M, problem, D, omega, m, X, omega2, i, ret, calls,
                 omega2From, written, nwritten>>

\* Lines 63-64, for the column j of block i; then the next j, or the next i.
WriteColumn ==
  /\ pc = "column"
  /\ X' = [r \in DOMAIN X |->
             IF r \in l(i, N) /\ j \in DOMAIN X[r]
             THEN [X[r] EXCEPT ![j] = g(omega2[j], r - i * N, phi, N)]
             ELSE X[r]]
  /\ written' = [r \in DOMAIN written |->
                   IF r \in l(i, N) /\ j \in DOMAIN written[r]
                   THEN [written[r] EXCEPT
                           ![j] = Append(@, [freq |-> omega2[j], from |-> omega2From[j],
                                             draw |-> rng, phi |-> phi])]
                   ELSE written[r]]
  /\ nwritten' = nwritten + Cardinality(l(i, N) \cap DOMAIN X)
  /\ j' = j + 1
  /\ i' = IF j + 1 \in range(D) THEN i ELSE i + 1
  /\ pc' = IF j + 1 \in range(D) THEN "column"
           ELSE IF i + 1 \in range(D) THEN "rotate" ELSE "scale"
  /\ UNCHANGED <<N, M, problem, D, omega, m, omega2, phi, ret, rng, calls,
                 omega2From, draws>>

\* Lines 67-70.
ScaleUniform ==
  /\ pc = "scale"
  /\ ~HasDists(problem)
  /\ calls' = Append(calls, Call("scale_samples", <<"X", "bounds">>, "None"))
  /\ X' = scale_samples(X, problem.bounds, N)
  /\ ret' = Matrix("X", Cardinality(DOMAIN X), D)
  /\ pc' = "returned"
  /\ UNCHANGED <<N, M, problem, D, omega, m, omega2, i, j, phi, rng,
                 omega2From, written, nwritten, draws>>

\* Lines 71-75.
CheckBounds ==
  /\ pc = "scale"
  /\ HasDists(problem)
  /\ calls' = Append(calls, Call("checkBounds", <<"problem">>, "lower_bound, upper_bound"))
  /\ pc' = "limit"
  /\ UNCHANGED <<N, M, problem, D, omega, m, X, omega2, i, j, phi, ret, rng,
                 omega2From, written, nwritten, draws>>

\* Line 78.
LimitSamples ==
  /\ pc = "limit"
  /\ ret' = limit_samples(Matrix("X", Cardinality(DOMAIN X), D))
  /\ calls' = Append(calls, Call("limit_samples",
                                 <<"X", "upper_bound", "lower_bound", "dists">>, ret'.obj))
  /\ pc' = "nonuniform"
  /\ UNCHANGED <<N, M, problem, D, omega, m, X, omega2, i, j, phi, rng,
                 omega2From, written, nwritten, draws>>

\* Lines 81-82.
NonuniformScale ==
  /\ pc = "nonuniform"
  /\ ret' = nonuniform_scale_samples(ret)
  /\ calls' = Append(calls, Call("nonuniform_scale_samples",
                                 <<ret.obj, "bounds", "dists">>, ret'.obj))
  /\ pc' = "returned"
  /\ UNCHANGED <<N, M, problem, D, omega, m, X, omega2, i, j, phi, rng,
                 omega2From, written, nwritten, draws>>

Next ==
  \/ CheckN
  \/ ReadNumVars
  \/ AssignBase
  \/ AssignSpaced
  \/ AssignCyclic
  \/ Allocate
  \/ Rotate
  \/ DrawPhase
  \/ WriteColumn
  \/ ScaleUniform
  \/ CheckBounds
  \/ LimitSamples
  \/ NonuniformScale

Spec == Init /\ [][Next]_vars

(***************************************************************************)
(* The frequency assigner alone (lines 30-43), on a wider range of inputs  *)
(* than the whole call can be explored on.                                 *)
(***************************************************************************)
\* The inputs of the two worked examples of the documentation.
Examples == {<<100, 4, 3>>, <<4100, 4, 10>>}

FreqInputs ==
  ((1..MaxFreqN) \X (1..MaxFreqM) \X (1..MaxFreqD)) \cup Examples

InitFreq ==
  \E in \in FreqInputs :
    Entry(in[1], in[2], [num_vars |-> in[3], bounds |-> UnitBounds(in[3]), dists |-> NoDists])

NextFreq ==
  \/ CheckN
  \/ ReadNumVars
  \/ AssignBase
  \/ AssignSpaced
  \/ AssignCyclic

SpecFreq == InitFreq /\ [][NextFreq]_vars

(***************************************************************************)
(* Properties.                                                             *)
(***************************************************************************)
NumVars == problem.num_vars

\* The loop of line 52 has ended.
AfterSweep == pc \in {"scale", "limit", "nonuniform", "returned"}

\* The cells of X together with their write records.
Cells == {rc \in (DOMAIN written) \X (0..(NumVars - 1)) : rc[2] \in DOMAIN written[rc[1]]}

Writes(rc) == written[rc[1]][rc[2]]

\* The block a row belongs to.
BlockOf(r) == r \div N

\* C1: a call with N <= 4*M^2 ends in the ValueError of line 31, and nothing
\* has happened before it: num_vars is not read, no frequency is computed, no
\* array is allocated, no phase is drawn, no collaborator is called.
C1_TooFewSamplesRaisesFirst ==
  N <= 4 * M * M =>
    /\ pc \in {"check", "raised"}
    /\ D = 0 /\ m = 0 /\ omega = <<>>
    /\ X = <<>> /\ omega2 = <<>>
    /\ rng = 0 /\ draws = <<>> /\ nwritten = 0
    /\ calls = <<>> /\ ret = NoMatrix

C1_Witness == pc = "raised" /\ N = 4 * M * M

\* C2: the matrix has N*D rows and D = num_vars columns, no cell is ever written
\* twice, a cell is written exactly when the loops have passed it, and so after
\* the D blocks every cell has been written exactly once.
C2_ShapeAndSingleWrite ==
  X # <<>> =>
    /\ DOMAIN X = 0..(N * NumVars - 1)
    /\ \A r \in DOMAIN X : DOMAIN X[r] = 0..(NumVars - 1)
    /\ DOMAIN written = DOMAIN X
    /\ \A rc \in Cells :
         Len(Writes(rc)) =
           IF \/ BlockOf(rc[1]) < i
              \/ (BlockOf(rc[1]) = i /\ pc = "column" /\ rc[2] < j)
           THEN 1 ELSE 0
    /\ AfterSweep => \A rc \in Cells : Len(Writes(rc)) = 1

C2_Witness ==
  /\ pc = "scale" /\ NumVars >= 3
  /\ Cardinality(Cells) = N * NumVars * NumVars
  /\ \A rc \in Cells : Len(Writes(rc)) = 1

C4_EntriesInUnitInterval ==
  /\ 0 <= phi /\ phi < N * PhaseRes
  /\ (X # <<>> /\ ~(pc = "returned" /\ ret.obj = "X")) =>
       \A r \in DOMAIN X : \A c \in DOMAIN X[r] :
         0 <= X[r][c] /\ X[r][c] <= 2 * N * PhaseRes

C4_Witness ==
  /\ pc = "scale"
  /\ \E rc \in Cells : Writes(rc) # <<>> /\ X[rc[1]][rc[2]] = 2 * N * PhaseRes
  /\ \E rc \in Cells : Writes(rc) # <<>> /\ X[rc[1]][rc[2]] = 0

\* The reference frequency assignment, in integer arithmetic.
RefOmega(n, mm, d) ==
  LET w0 == (n - 1) \div (2 * mm)
      mh == w0 \div (2 * mm)
  IN [q \in 0..(d - 1) |->
        IF q = 0 THEN w0
        ELSE IF mh >= d - 1
        THEN (IF d = 2 THEN 1 ELSE ((d - 2) + (q - 1) * (mh - 1)) \div (d - 2))
        ELSE ((q - 1) % mh) + 1]

\* C5: the frequency vector equals the reference assignment: omega[0] =
\* floor((N-1)/(2M)) and, with m = floor(omega[0]/(2M)), omega[1+k] =
\* floor(1 + k*(m-1)/(D-2)) when m >= D-1 and (k mod m) + 1 otherwise.
C5_ReferenceAssignment ==
  pc = "alloc" => omega = RefOmega(N, M, NumVars)

\* C5 on the two worked examples of the documentation.
C5_Examples ==
  /\ (pc = "alloc" /\ <<N, M, NumVars>> = <<100, 4, 3>>) =>
       omega = (0 :> 12 @@ 1 :> 1 @@ 2 :> 1)
  /\ (pc = "alloc" /\ <<N, M, NumVars>> = <<4100, 4, 10>>) =>
       /\ omega[0] = 512
       /\ [q \in 1..9 |-> omega[q]] = <<1, 8, 16, 24, 32, 40, 48, 56, 64>>

\* 'dists' is declared: present and not empty.
Declared == problem.dists.present /\ Len(problem.dists.value) > 0

CalledFns == [q \in 1..Len(calls) |-> calls[q].fn]

ExpectedFns ==
  IF Declared THEN <<"checkBounds", "limit_samples", "nonuniform_scale_samples">>
  ELSE <<"scale_samples">>

\* C6: the collaborators are called only after the matrix is built; without
\* declared 'dists' scale_samples(X, bounds) alone is called, once, and X is
\* returned; with declared 'dists' checkBounds, limit_samples and
\* nonuniform_scale_samples are called once each in this order, the second's
\* result is the third's argument and the third's result is returned.
C6_CollaboratorCalls ==
  /\ calls # <<>> => AfterSweep /\ nwritten = N * NumVars * NumVars
  /\ Len(calls) <= Len(ExpectedFns)
  /\ \A q \in 1..Len(calls) : CalledFns[q] = ExpectedFns[q]
  /\ pc = "returned" =>
       /\ CalledFns = ExpectedFns
       /\ calls[1].args[1] = IF Declared THEN "problem" ELSE "X"
       /\ ~Declared => ret.obj = "X" /\ calls[1].args = <<"X", "bounds">>
       /\ Declared =>
            /\ calls[2].args[1] = "X"
            /\ calls[3].args[1] = calls[2].result
            /\ ret.obj = calls[3].result

C6_Witness == pc = "returned" /\ Declared /\ Len(calls) = 3

\* The position of omega that column c takes its frequency from in block b.
ExpectedIndex(b, c) == IF c = b THEN 0 ELSE IF c < b THEN c + 1 ELSE c

\* C7: in block i, column j is computed with omega[0] when j = i, omega[j+1]
\* when j < i and omega[j] when j > i, and the entry of omega2 it reads was
\* assigned in block i itself.
C7_RotatedFrequencies ==
  \A rc \in Cells : \A q \in 1..Len(Writes(rc)) :
    LET w == Writes(rc)[q]
        b == BlockOf(rc[1])
    IN /\ w.from = <<b, ExpectedIndex(b, rc[2])>>
       /\ w.freq = omega[ExpectedIndex(b, rc[2])]

C7_Witness ==
  /\ pc = "scale" /\ NumVars >= 3 /\ nwritten = N * NumVars * NumVars
  /\ omega[0] # omega[1] /\ omega[1] # omega[2]

\* C8: the random source is drawn from once per block, in block order, after
\* every cell of the earlier blocks and before any cell of the block is
\* written: D draws in all; every column of a block uses the block's phase.
C8_OnePhasePerBlock ==
  /\ rng = Len(draws)
  /\ rng = IF pc = "column" THEN i + 1 ELSE i
  /\ AfterSweep => rng = NumVars
  /\ \A q \in 1..Len(draws) :
       draws[q].block = q - 1 /\ draws[q].before = (q - 1) * N * NumVars
  /\ \A rc \in Cells : \A q \in 1..Len(Writes(rc)) :
       LET w == Writes(rc)[q]
       IN /\ w.draw = BlockOf(rc[1]) + 1
          /\ w.draw <= Len(draws)
          /\ w.phi = draws[w.draw].phi

C8_Witness ==
  /\ pc = "returned" /\ rng = 3
  /\ draws[1].phi # draws[2].phi /\ draws[2].phi # draws[3].phi

\* C9: once validation has passed, omega[0] >= 2M, m >= 1 (the remainder of
\* line 43 is never taken modulo zero), 2*M*m <= omega[0], and every
\* complementary frequency lies in 1..m, so that 2*M*omega[j] <= omega[0].
C9_FrequenciesSeparated ==
  pc \in {"branch", "alloc"} =>
    /\ N > 4 * M * M
    /\ omega[0] >= 2 * M
    /\ m >= 1
    /\ 2 * M * m <= omega[0]
    /\ pc = "alloc" =>
         \A q \in 1..(NumVars - 1) :
           1 <= omega[q] /\ omega[q] <= m /\ 2 * M * omega[q] <= omega[0]

C9_Witness ==
  pc = "alloc" /\ m >= 2 /\ m < NumVars - 1 /\ omega[NumVars - 1] = m

\* C10: in the branch m >= D-1 the complementary frequencies are strictly
\* increasing from omega[1] = 1 to omega[D-1] = m; in the branch m < D-1 they
\* repeat with period m.
C10_IncreasingOrPeriodic ==
  pc = "alloc" =>
    IF m >= NumVars - 1
    THEN /\ \A q \in 1..(NumVars - 2) : omega[q] < omega[q + 1]
         /\ NumVars >= 2 => omega[1] = 1
         /\ NumVars >= 3 => omega[NumVars - 1] = m
    ELSE \A k \in 0..(NumVars - 2) :
           k + m <= NumVars - 2 => omega[1 + k] = omega[1 + k + m]

C10_Witness ==
  pc = "alloc" /\ NumVars >= 5 /\ m >= NumVars /\ omega[2] > 2

====
